---- MODULE Spec2Model ----
(***************************************************************************)
(* Key resolution and metadata signing of tuftool                          *)
(* (workspaces/tuftool/src/key.rs): KeyPair::parse, KeyPair == Key,        *)
(* keys_for_root and sign_metadata.                                        *)
(*                                                                         *)
(* A HashMap is a function on the set of its keys; where the code iterates *)
(* over one, the iteration order is an arbitrary permutation of its keys   *)
(* that stays the same for as long as the map is not modified.             *)
(* Option<T> is a sequence of length 0 (None) or 1 (Some).                 *)
(***************************************************************************)
EXTENDS Integers, Sequences, FiniteSets, TLC

\* ------------------------------------------------------------------ bounds
\* longest list of key sources handed to keys_for_root
MaxSources == 2
\* number of sign_metadata calls made in one signing session
MaxCalls == 2

\* ------------------------------------------------------------ value spaces
KeyIds == {"k1", "k2"}
Docs == {"d1", "d2"}
Thresholds == {1, 2}
\* the role type T::TYPE of the documents being signed
RoleType == "snapshot"

None == <<>>
Some(x) == <<x>>
IsSome(o) == Len(o) = 1
Get(o) == o[1]

Range(s) == {s[i] : i \in DOMAIN s}
SeqsUpTo(S, n) == UNION {[1..m -> S] : m \in 0..n}
\* every order in which the elements of the finite set S can be listed
Orders(S) == {s \in [1..Cardinality(S) -> S] : Range(s) = S}

\* tough_schema::key::Key, the public key descriptor held by Root
RsaKeyDesc(pub) == [type |-> "rsa", public |-> pub]
Ed25519KeyDesc(pub) == [type |-> "ed25519", public |-> pub]
KeyDescs == {RsaKeyDesc("A"), RsaKeyDesc("B"), Ed25519KeyDesc("A")}

\* ------------------------------------------------------- key file contents
\* Raw key bytes: either not a PEM container at all, or a container with a
\* tag and contents; the contents are a DER RSA private key <<public,
\* private>> or bytes that are no such key (<<>>).
NotPem == [pem |-> FALSE, tag |-> "", contents |-> <<>>]
Pem(tag, contents) == [pem |-> TRUE, tag |-> tag, contents |-> contents]
RsaTag == "RSA PRIVATE KEY"

\* The files the key sources point to. a.pem and a2.pem hold two encodings
\* of private keys with the same public key A; c.pem holds a key no Root
\* lists.
Files ==
    [path \in {"a.pem", "a2.pem", "b.pem", "c.pem", "ec.pem", "ecjunk.pem",
               "junk.pem", "notes.txt"} |->
        CASE path = "a.pem" -> Pem(RsaTag, <<"A", "priv1">>)
          [] path = "a2.pem" -> Pem(RsaTag, <<"A", "priv2">>)
          [] path = "b.pem" -> Pem(RsaTag, <<"B", "priv1">>)
          [] path = "c.pem" -> Pem(RsaTag, <<"C", "priv1">>)
          [] path = "ec.pem" -> Pem("EC PRIVATE KEY", <<"A", "priv1">>)
          [] path = "ecjunk.pem" -> Pem("EC PRIVATE KEY", <<>>)
          [] path = "junk.pem" -> Pem(RsaTag, <<>>)
          [] path = "notes.txt" -> NotPem]
\* a key source is a path; missing.pem names no file
KeySources == DOMAIN Files \cup {"missing.pem"}

\* ------------------------------------------------------------------ results
\* Result<T, Error>: Ok(v) or Err(e)
Ok(v) == [ok |-> TRUE, val |-> Some(v), err |-> "none"]
Err(e) == [ok |-> FALSE, val |-> None, err |-> e]

\* ---------------------------------------------------------- KeyPair (key.rs)
\* pem::parse
PemParse(bytes) == IF bytes.pem THEN Ok([tag |-> bytes.tag, contents |-> bytes.contents])
                   ELSE Err("MalformedFraming")

\* ring's RsaKeyPair::from_der
RsaFromDer(contents) ==
    IF Len(contents) = 2
    THEN Ok([public |-> contents[1], private |-> contents[2]])
    ELSE Err("InvalidEncoding")

KeyPairParseContentsFirst(key) ==
    LET pem == PemParse(key) IN
    IF pem.ok
    THEN IF RsaFromDer(Get(pem.val).contents).ok
         THEN IF Get(pem.val).tag = RsaTag
              THEN Ok(Get(RsaFromDer(Get(pem.val).contents).val))
              ELSE Err("KeyUnrecognized")
         ELSE Err("KeyRejected")
    ELSE Err("KeyUnrecognized")

\* KeyPair::parse
KeyPairParse(key) ==
    LET pem == PemParse(key) IN
    IF pem.ok
    THEN IF Get(pem.val).tag = RsaTag
         THEN LET kp == RsaFromDer(Get(pem.val).contents) IN
              IF kp.ok THEN Ok(Get(kp.val)) ELSE Err("KeyRejected")
         ELSE Err("KeyUnrecognized")
    ELSE Err("KeyUnrecognized")

\* KeyPair::public_key
PublicKey(key_pair) == RsaKeyDesc(key_pair.public)

KeyPairEqIgnoringType(key_pair, key) == key_pair.public = key.public

\* impl PartialEq<Key> for KeyPair
KeyPairEq(key_pair, key) ==
    IF key.type = "rsa" THEN key_pair.public = key.public ELSE FALSE

\* KeySource::as_keypair: read the file, then KeyPair::parse
AsKeyPair(source) ==
    IF source \in DOMAIN Files THEN KeyPairParse(Files[source])
    ELSE Err("FileRead")

\* ------------------------------------------------------------ Root (input)
\* root.keys, a HashMap from KeyId to Key
RootKeyMaps == UNION {[ids -> KeyDescs] : ids \in SUBSET KeyIds}
\* RoleKeys.keyids, a list of KeyIds (a KeyId may be listed twice)
KeyIdLists == {<<>>, <<"k1">>, <<"k2">>, <<"k1", "k2">>, <<"k1", "k1">>}
RoleKeys == [keyids : KeyIdLists, threshold : Thresholds]
\* root.roles, a HashMap from role type to RoleKeys
RootRoleMaps == UNION {[types -> RoleKeys] : types \in SUBSET {RoleType}}
Roots == [keys : RootKeyMaps, roles : RootRoleMaps]

\* ----------------------------------------------------- keys_for_root (key.rs)
EmptyMap == [k \in {} |-> k]

InsertKeepFirst(map, k, v) ==
    [x \in DOMAIN map \cup {k} |-> IF x \in DOMAIN map THEN map[x] ELSE v]

\* HashMap::insert
Insert(map, k, v) ==
    [x \in DOMAIN map \cup {k} |-> IF x = k THEN v ELSE map[x]]

\* root.keys.iter().find(|(_, key)| key_pair == **key), iter being the order
\* in which root.keys is iterated
RECURSIVE FindKey(_, _, _)
FindKey(iter, rootkeys, key_pair) ==
    IF iter = <<>> THEN None
    ELSE IF KeyPairEq(key_pair, rootkeys[Head(iter)]) THEN Some(Head(iter))
    ELSE FindKey(Tail(iter), rootkeys, key_pair)

RECURSIVE KeysForRootLoopSkipFailed(_, _, _, _)
KeysForRootLoopSkipFailed(keys, root, iter, map) ==
    IF keys = <<>> THEN Ok(map)
    ELSE LET key_pair == AsKeyPair(Head(keys)) IN
         IF ~key_pair.ok
         THEN KeysForRootLoopSkipFailed(Tail(keys), root, iter, map)
         ELSE LET found == FindKey(iter, root.keys, Get(key_pair.val)) IN
              KeysForRootLoopSkipFailed(Tail(keys), root, iter,
                  IF IsSome(found)
                  THEN Insert(map, Get(found), Get(key_pair.val))
                  ELSE map)

\* the loop of keys_for_root over the sources that remain, map being the
\* HashMap built so far
RECURSIVE KeysForRootLoop(_, _, _, _)
KeysForRootLoop(keys, root, iter, map) ==
    IF keys = <<>> THEN Ok(map)
    ELSE LET key_pair == AsKeyPair(Head(keys)) IN
         IF ~key_pair.ok
         THEN Err(key_pair.err)
         ELSE LET found == FindKey(iter, root.keys, Get(key_pair.val)) IN
              KeysForRootLoop(Tail(keys), root, iter,
                  IF IsSome(found)
                  THEN Insert(map, Get(found), Get(key_pair.val))
                  ELSE map)

keys_for_root(keys, root, iter) == KeysForRootLoop(keys, root, iter, EmptyMap)

\* ----------------------------------------------------- sign_metadata (key.rs)
\* Signed<T>.signed for document d. The payloads of distinct documents
\* differ; serde cannot represent every payload.
Payloads(d) == [type : {RoleType}, body : {d}, representable : BOOLEAN]

\* role.signed.serialize(&mut ser) with olpc_cjson's CanonicalFormatter
CanonicalJson(payload) ==
    IF payload.representable THEN Ok(<<"cjson", payload.body>>)
    ELSE Err("SignJson")

\* The state of a SecureRandom is the number of times it can still be filled
\* before it fails.
RngStates == 0..Cardinality(KeyIds)

\* KeyPair::sign: the signature names the key pair that made it and the
\* message it was made over
KeyPairSign(key_pair, msg, rng) ==
    IF rng > 0 THEN Ok([by |-> key_pair, msg |-> msg]) ELSE Err("Sign")

ContainsAnything(keyids, keyid) == TRUE

\* role_keys.keyids.contains(&keyid)
Contains(keyids, keyid) == \E i \in DOMAIN keyids : keyids[i] = keyid

\* What a call has come to: the document, the rng, and ret, "running" until
\* the call returns "Ok" or the error it failed with.
SignState(role, rng, ret) == [role |-> role, rng |-> rng, ret |-> ret]

SignWithPerListing(role_keys, keyid, key, st) ==
    IF Contains(role_keys.keyids, keyid)
    THEN LET data == CanonicalJson(st.role.signed) IN
         IF ~data.ok THEN [st EXCEPT !.ret = data.err]
         ELSE LET sig == KeyPairSign(key, Get(data.val), st.rng) IN
              IF ~sig.ok THEN [st EXCEPT !.ret = sig.err]
              ELSE LET listed == {i \in DOMAIN role_keys.keyids :
                                     role_keys.keyids[i] = keyid} IN
                   [st EXCEPT
                       !.role.signatures =
                           @ \o [i \in 1..Cardinality(listed) |->
                                    [keyid |-> keyid, sig |-> Get(sig.val)]],
                       !.rng = @ - 1]
    ELSE st

SignWithReplacing(role_keys, keyid, key, st) ==
    IF Contains(role_keys.keyids, keyid)
    THEN LET data == CanonicalJson(st.role.signed) IN
         IF ~data.ok THEN [st EXCEPT !.ret = data.err]
         ELSE LET sig == KeyPairSign(key, Get(data.val), st.rng) IN
              IF ~sig.ok THEN [st EXCEPT !.ret = sig.err]
              ELSE [st EXCEPT
                       !.role.signatures =
                           Append(SelectSeq(@, LAMBDA s : s.keyid # keyid),
                                  [keyid |-> keyid, sig |-> Get(sig.val)]),
                       !.rng = @ - 1]
    ELSE st

\* The body of the loop of sign_metadata for one entry (keyid, key) of keys.
SignWith(role_keys, keyid, key, st) ==
    IF Contains(role_keys.keyids, keyid)
    THEN LET data == CanonicalJson(st.role.signed) IN
         IF ~data.ok THEN [st EXCEPT !.ret = data.err]
         ELSE LET sig == KeyPairSign(key, Get(data.val), st.rng) IN
              IF ~sig.ok THEN [st EXCEPT !.ret = sig.err]
              ELSE [st EXCEPT
                       !.role.signatures =
                           Append(@, [keyid |-> keyid, sig |-> Get(sig.val)]),
                       !.rng = @ - 1]
    ELSE st

RECURSIVE SignLoopEnforcingThreshold(_, _, _, _)
SignLoopEnforcingThreshold(role_keys, keys, iter, st) ==
    IF st.ret # "running" THEN st
    ELSE IF iter = <<>>
         THEN [st EXCEPT !.ret =
                  IF Len(st.role.signatures) < role_keys.threshold
                  THEN "ThresholdNotMet" ELSE "Ok"]
    ELSE SignLoopEnforcingThreshold(role_keys, keys, Tail(iter),
             SignWith(role_keys, Head(iter), keys.map[Head(iter)], st))

\* for (keyid, key) in keys { ... }, iter being the entries that remain
RECURSIVE SignLoop(_, _, _, _)
SignLoop(role_keys, keys, iter, st) ==
    IF st.ret # "running" THEN st
    ELSE IF iter = <<>> THEN [st EXCEPT !.ret = "Ok"]
    ELSE SignLoop(role_keys, keys, Tail(iter),
                  SignWith(role_keys, Head(iter), keys.map[Head(iter)], st))

\* root.roles.get(&T::TYPE)
RoleKeysOf(root, role) ==
    IF role.signed.type \in DOMAIN root.roles
    THEN Some(root.roles[role.signed.type]) ELSE None

SignMetadataFromScratch(root, keys, role, rng) ==
    LET role_keys == RoleKeysOf(root, role) IN
    IF IsSome(role_keys)
    THEN SignLoop(Get(role_keys), keys, keys.iter,
                  SignState([role EXCEPT !.signatures = <<>>], rng, "running"))
    ELSE SignState(role, rng, "Ok")

SignMetadataRoleRequired(root, keys, role, rng) ==
    LET role_keys == RoleKeysOf(root, role) IN
    IF IsSome(role_keys)
    THEN SignLoop(Get(role_keys), keys, keys.iter, SignState(role, rng, "running"))
    ELSE SignState(role, rng, "RoleNotFound")

\* sign_metadata(root, keys, role, rng): the document, the rng and the
\* value returned when the call ends
sign_metadata(root, keys, role, rng) ==
    LET role_keys == RoleKeysOf(root, role) IN
    IF IsSome(role_keys)
    THEN SignLoop(Get(role_keys), keys, keys.iter, SignState(role, rng, "running"))
    ELSE SignState(role, rng, "Ok")

\* -------------------------------------------------------------------- state
VARIABLES
    root,      \* the Root both operations are given
    signed,    \* signed[d]: document d, [signed |-> payload, signatures |-> ...]
    resolve,   \* the last keys_for_root call: its sources and what it returned
    keys,      \* the RootKeys the caller holds: its map and iteration order
    calls,     \* calls[d]: sign_metadata calls on d that returned Ok / an error
    last,      \* last[d]: the last call on d: its rng, the signatures at entry, ret
    frame      \* frame[d]: the sign_metadata call now running on d

vars == <<root, signed, resolve, keys, calls, last, frame>>

Init ==
    /\ root \in Roots
    /\ signed \in [Docs -> [signed : UNION {Payloads(d) : d \in Docs},
                            signatures : {<<>>}]]
    /\ \A d \in Docs : signed[d].signed \in Payloads(d)
    /\ resolve = None
    /\ keys = None
    /\ calls = [d \in Docs |-> [ok |-> 0, err |-> 0]]
    /\ last = [d \in Docs |-> None]
    /\ frame = [d \in Docs |-> None]

NumCalls == LET n(d) == calls[d].ok + calls[d].err + Len(frame[d])
            IN n("d1") + n("d2")

\* keys_for_root(sources, root) is called and returns
KeysForRootCall ==
    /\ keys = None
    /\ resolve = None
    /\ \E sources \in SeqsUpTo(KeySources, MaxSources) :
       \E iter \in Orders(DOMAIN root.keys) :
          resolve' = Some([sources |-> sources,
                           result |-> keys_for_root(sources, root, iter)])
    /\ UNCHANGED <<root, signed, keys, calls, last, frame>>

\* The caller takes the map out of Ok(map); from here on the map is
\* iterated in one order.
BindKeys ==
    /\ keys = None
    /\ IsSome(resolve)
    /\ Get(resolve).result.ok
    /\ LET map == Get(Get(resolve).result.val) IN
       \E iter \in Orders(DOMAIN map) :
          keys' = Some([map |-> map, iter |-> iter])
    /\ resolve' = None
    /\ UNCHANGED <<root, signed, calls, last, frame>>

ReturnedRollingBack(d, st, rng, old) ==
    /\ signed' = [signed EXCEPT ![d] =
                     IF st.ret = "Ok" THEN st.role
                     ELSE [st.role EXCEPT !.signatures = old]]
    /\ last' = [last EXCEPT ![d] = Some([rng |-> rng, old |-> old, ret |-> st.ret])]
    /\ calls' = [calls EXCEPT ![d] =
                    IF st.ret = "Ok" THEN [@ EXCEPT !.ok = @ + 1]
                    ELSE [@ EXCEPT !.err = @ + 1]]

\* What the end of a call on d leaves behind.
Returned(d, st, rng, old) ==
    /\ signed' = [signed EXCEPT ![d] = st.role]
    /\ last' = [last EXCEPT ![d] = Some([rng |-> rng, old |-> old, ret |-> st.ret])]
    /\ calls' = [calls EXCEPT ![d] =
                    IF st.ret = "Ok" THEN [@ EXCEPT !.ok = @ + 1]
                    ELSE [@ EXCEPT !.err = @ + 1]]

\* sign_metadata(root, keys, signed[d], rng), from call to return
SignMetadataCall(d) ==
    /\ IsSome(keys)
    /\ frame[d] = None
    /\ NumCalls < MaxCalls
    /\ \E rng \in RngStates :
          Returned(d, sign_metadata(root, Get(keys), signed[d], rng),
                   rng, signed[d].signatures)
    /\ UNCHANGED <<root, resolve, keys, frame>>

Next ==
    \/ KeysForRootCall
    \/ BindKeys
    \/ \E d \in Docs : SignMetadataCall(d)

Spec == Init /\ [][Next]_vars

\* ------------------------------------------- sign_metadata, one step at a time
\* Two calls on distinct documents run at once: each call is the steps of
\* its loop, and the steps of the two calls interleave.

StoreInEveryDocument(sgn, d, role) == [x \in DOMAIN sgn |-> role]

\* role: &mut Signed<T> is the caller's document d: a push lands there
Store(sgn, d, role) == [sgn EXCEPT ![d] = role]

\* the call starts: root.roles.get(&T::TYPE), and keys.iter() if it is Some
SignEnter(d) ==
    /\ IsSome(keys)
    /\ frame[d] = None
    /\ NumCalls < MaxCalls
    /\ \E rng \in RngStates :
          frame' = [frame EXCEPT ![d] =
              Some([role_keys |-> RoleKeysOf(root, signed[d]),
                    iter |-> IF IsSome(RoleKeysOf(root, signed[d]))
                             THEN Get(keys).iter ELSE <<>>,
                    rng |-> rng,
                    ret |-> "running",
                    rng0 |-> rng,
                    old |-> signed[d].signatures])]
    /\ UNCHANGED <<root, signed, resolve, keys, calls, last>>

\* one turn of the loop: the next entry of keys
SignIterate(d) ==
    /\ IsSome(frame[d])
    /\ LET f == Get(frame[d]) IN
       /\ f.ret = "running"
       /\ f.iter # <<>>
       /\ LET st == SignWith(Get(f.role_keys), Head(f.iter),
                             Get(keys).map[Head(f.iter)],
                             SignState(signed[d], f.rng, "running")) IN
          /\ signed' = Store(signed, d, st.role)
          /\ frame' = [frame EXCEPT ![d] =
                 Some([f EXCEPT !.iter = Tail(@), !.rng = st.rng, !.ret = st.ret])]
    /\ UNCHANGED <<root, resolve, keys, calls, last>>

\* the call returns: the error of a failed turn, or Ok(()) after the loop
SignReturn(d) ==
    /\ IsSome(frame[d])
    /\ LET f == Get(frame[d]) IN
       /\ f.ret # "running" \/ f.iter = <<>>
       /\ Returned(d, SignState(signed[d], f.rng,
                                IF f.ret = "running" THEN "Ok" ELSE f.ret),
                   f.rng0, f.old)
    /\ frame' = [frame EXCEPT ![d] = None]
    /\ UNCHANGED <<root, resolve, keys>>

NextInterleaved ==
    \/ KeysForRootCall
    \/ BindKeys
    \/ \E d \in Docs : SignEnter(d)
    \/ \E d \in Docs : SignIterate(d)
    \/ \E d \in Docs : SignReturn(d)

SpecInterleaved == Init /\ [][NextInterleaved]_vars

\* ===================================================================== claims
\* the signatures the last call on d appended
Appended(d) ==
    SubSeq(signed[d].signatures, Len(Get(last[d]).old) + 1,
           Len(signed[d].signatures))
\* how many entries of sigs carry keyid
Count(sigs, keyid) == Cardinality({i \in DOMAIN sigs : sigs[i].keyid = keyid})
RoleDeclared(d) == signed[d].signed.type \in DOMAIN root.roles
\* the role's authorized keyids that the key map holds
Usable(d) ==
    {k \in DOMAIN Get(keys).map :
        \E i \in DOMAIN root.roles[signed[d].signed.type].keyids :
            root.roles[signed[d].signed.type].keyids[i] = k}
\* the key descriptor lists this key pair's public key
Matches(key_pair, key) == key.type = "rsa" /\ key.public = key_pair.public
\* the sources of the last keys_for_root call, and what each resolves to
Sources == Get(resolve).sources
Materialized(i) == AsKeyPair(Sources[i])
AllMaterialize == \A i \in DOMAIN Sources : Materialized(i).ok
ResolvedMap == Get(Get(resolve).result.val)

\* C1: with the key map that keys_for_root returned, every signature on a
\* document has a KeyId that is a key of root.keys and is listed in the
\* keyids of the document's role, and was made by the key pair the map
\* holds for that KeyId, whose public key is that of root.keys[KeyId].
C1_SignsOnlyAuthorized ==
    \A d \in Docs : \A i \in DOMAIN signed[d].signatures :
        LET s == signed[d].signatures[i] IN
        /\ IsSome(keys)
        /\ s.keyid \in DOMAIN root.keys
        /\ RoleDeclared(d)
        /\ \E j \in DOMAIN root.roles[signed[d].signed.type].keyids :
              root.roles[signed[d].signed.type].keyids[j] = s.keyid
        /\ s.keyid \in DOMAIN Get(keys).map
        /\ s.sig.by = Get(keys).map[s.keyid]
        /\ s.sig.by.public = root.keys[s.keyid].public

\* a document was signed while the map held a key the role does not list
C1_Witness ==
    \E d \in Docs :
        /\ signed[d].signatures # <<>>
        /\ IsSome(keys)
        /\ Usable(d) # DOMAIN Get(keys).map

\* C2: a call that returns Ok on a document whose role Root declares has
\* appended exactly one signature for each KeyId that the role lists and the
\* key map holds, and nothing else; when there is no such KeyId the call
\* appends nothing and returns Ok.
C2_OnePerUsableKey ==
    \A d \in Docs :
        (IsSome(last[d]) /\ frame[d] = None /\ RoleDeclared(d)) =>
            /\ Get(last[d]).ret = "Ok" =>
                  /\ Len(Appended(d)) = Cardinality(Usable(d))
                  /\ \A k \in Usable(d) : Count(Appended(d), k) = 1
                  /\ \A i \in DOMAIN Appended(d) : Appended(d)[i].keyid \in Usable(d)
            /\ Usable(d) = {} =>
                  /\ Get(last[d]).ret = "Ok"
                  /\ Appended(d) = <<>>

\* a call returned Ok for a role that lists one KeyId twice, the map holding
\* two keys of which the role lists one
C2_Witness ==
    \E d \in Docs :
        /\ IsSome(last[d])
        /\ RoleDeclared(d)
        /\ Get(last[d]).ret = "Ok"
        /\ root.roles[signed[d].signed.type].keyids = <<"k1", "k1">>
        /\ Cardinality(DOMAIN Get(keys).map) = 2
        /\ Len(Appended(d)) = 1

\* C3: when every source materializes, keys_for_root returns Ok(map), and
\* every entry (k, P) of map has k in root.keys with the public key bytes of
\* P; P is the key pair of a source that root.keys lists; a source that
\* root.keys does not list adds no entry, so sources unrelated to Root give
\* the empty map.
C3_OnlyKeysOfRoot ==
    (IsSome(resolve) /\ AllMaterialize) =>
        /\ Get(resolve).result.ok
        /\ \A k \in DOMAIN ResolvedMap :
              /\ k \in DOMAIN root.keys
              /\ ResolvedMap[k].public = root.keys[k].public
              /\ \E i \in DOMAIN Sources :
                    /\ ResolvedMap[k] = Get(Materialized(i).val)
                    /\ Matches(Get(Materialized(i).val), root.keys[k])
        /\ (\A i \in DOMAIN Sources : \A k \in DOMAIN root.keys :
                ~Matches(Get(Materialized(i).val), root.keys[k]))
              => ResolvedMap = EmptyMap

\* two sources that materialize, one that Root lists and one whose public
\* key bytes Root lists only under another key type or not at all
C3_Witness ==
    /\ IsSome(resolve)
    /\ AllMaterialize
    /\ Len(Sources) = 2
    /\ Cardinality(DOMAIN ResolvedMap) = 1
    /\ \E i \in DOMAIN Sources : \A k \in DOMAIN root.keys :
          ~Matches(Get(Materialized(i).val), root.keys[k])
    /\ \E k \in DOMAIN root.keys : root.keys[k].type = "ed25519"

\* the first source that does not materialize
FirstFailing ==
    CHOOSE i \in DOMAIN Sources :
        /\ ~Materialized(i).ok
        /\ \A j \in 1..(i - 1) : Materialized(j).ok

\* C4: if any source cannot be read or parsed, keys_for_root returns the
\* error of the first such source and no map, wherever the source stands in
\* the list and however many sources before it matched Root.
C4_FailingSourceAborts ==
    (IsSome(resolve) /\ ~AllMaterialize) =>
        /\ ~Get(resolve).result.ok
        /\ Get(resolve).result.val = None
        /\ Get(resolve).result.err = Materialized(FirstFailing).err

\* the second source fails after the first one matched a key of Root
C4_Witness ==
    /\ IsSome(resolve)
    /\ Len(Sources) = 2
    /\ Materialized(1).ok
    /\ \E k \in DOMAIN root.keys : Matches(Get(Materialized(1).val), root.keys[k])
    /\ ~Materialized(2).ok
    /\ ~Get(resolve).result.ok

\* the sources whose key pair has the public key bytes pub
SourcesOf(pub) ==
    {i \in DOMAIN Sources : Get(Materialized(i).val).public = pub}
Last(I) == CHOOSE i \in I : \A j \in I : j <= i

KeyIdsIn(sigs) == {sigs[i].keyid : i \in DOMAIN sigs}
IsPrefix(s, t) == Len(s) <= Len(t) /\ SubSeq(t, 1, Len(s)) = s

\* C6: the threshold of the document's role decides nothing in
\* sign_metadata: the same call under a Root that differs only in that
\* threshold returns the same value and appends signatures for the same
\* KeyIds (and so the call returns Ok also with fewer signatures on the
\* document than the threshold asks for).
C6_ThresholdNotEnforced ==
    \A d \in Docs :
        (IsSome(last[d]) /\ frame[d] = None /\ RoleDeclared(d)) =>
            \A t \in {1, 2, 3} :
                LET other == [root EXCEPT !.roles[signed[d].signed.type].threshold = t]
                    again == sign_metadata(other, Get(keys),
                                 [signed[d] EXCEPT !.signatures = Get(last[d]).old],
                                 Get(last[d]).rng)
                IN  /\ again.ret = Get(last[d]).ret
                    /\ KeyIdsIn(SubSeq(again.role.signatures,
                                       Len(Get(last[d]).old) + 1,
                                       Len(again.role.signatures)))
                         = KeyIdsIn(Appended(d))

\* a call returned Ok and left one signature on a document whose role has
\* threshold 2
C6_Witness ==
    \E d \in Docs :
        /\ IsSome(last[d])
        /\ RoleDeclared(d)
        /\ Get(last[d]).ret = "Ok"
        /\ Len(signed[d].signatures) = 1
        /\ root.roles[signed[d].signed.type].threshold = 2

\* C7: after n calls on an unsigned document with the same Root and key
\* map, all returning Ok, the document holds exactly n entries for each
\* KeyId that the role lists and the map holds, and no other entry.
C7_NoDeduplication ==
    \A d \in Docs :
        (IsSome(keys) /\ frame[d] = None /\ RoleDeclared(d) /\ calls[d].err = 0) =>
            /\ \A k \in Usable(d) : Count(signed[d].signatures, k) = calls[d].ok
            /\ Len(signed[d].signatures) = calls[d].ok * Cardinality(Usable(d))

\* the second call on a signed document returned Ok, and the document holds
\* two entries for the same KeyId
C7_Witness ==
    \E d \in Docs :
        /\ IsSome(keys)
        /\ RoleDeclared(d)
        /\ calls[d].err = 0
        /\ calls[d].ok = 2
        /\ \E k \in Usable(d) : Count(signed[d].signatures, k) = 2

\* C8: a call of sign_metadata, returning Ok or an error, leaves the
\* payload, Root and the key map as they were and keeps the signatures that
\* were on the document, in their order, as a prefix of its signatures.
C8_AppendOnly ==
    [][calls' # calls =>
          /\ root' = root
          /\ keys' = keys
          /\ \A d \in Docs :
                /\ signed'[d].signed = signed[d].signed
                /\ IsPrefix(signed[d].signatures, signed'[d].signatures)
                /\ IsSome(last'[d]) =>
                      IsPrefix(Get(last'[d]).old, signed'[d].signatures)]_vars

\* a call failed on a document that already carried a signature, and a call
\* returned Ok on one
C8_Witness ==
    /\ \E d \in Docs :
          /\ IsSome(last[d])
          /\ Get(last[d]).ret # "Ok"
          /\ Get(last[d]).old # <<>>
    /\ \E d \in Docs : calls[d].ok > 0

\* what sources of these contents must parse to
ValidRsaDer(contents) == Len(contents) = 2
Classified(bytes, parsed) ==
    /\ (~parsed.ok /\ parsed.err = "KeyUnrecognized")
          <=> (~bytes.pem \/ bytes.tag # "RSA PRIVATE KEY")
    /\ (~parsed.ok /\ parsed.err = "KeyRejected")
          <=> (bytes.pem /\ bytes.tag = "RSA PRIVATE KEY"
               /\ ~ValidRsaDer(bytes.contents))
    /\ parsed.ok
          <=> (bytes.pem /\ bytes.tag = "RSA PRIVATE KEY"
               /\ ValidRsaDer(bytes.contents))
    /\ parsed.ok => Get(parsed.val).public = bytes.contents[1]

\* C9: KeyPair::parse returns KeyUnrecognized exactly for bytes that are no
\* PEM container or whose tag is not "RSA PRIVATE KEY", KeyRejected exactly
\* for that tag with contents that are no RSA key, and a KeyPair otherwise;
\* the error keys_for_root returns for a source that is read is the one
\* KeyPair::parse gave.
C9_ParseOutcomes ==
    IsSome(resolve) =>
        /\ \A i \in DOMAIN Sources :
              Sources[i] \in DOMAIN Files =>
                  Classified(Files[Sources[i]], KeyPairParse(Files[Sources[i]]))
        /\ (~Get(resolve).result.ok /\ Sources[FirstFailing] \in DOMAIN Files) =>
              Classified(Files[Sources[FirstFailing]],
                         Err(Get(resolve).result.err))

\* keys_for_root met a container of an unsupported tag whose contents are
\* no key, after a source that parsed
C9_Witness ==
    /\ IsSome(resolve)
    /\ Sources = <<"b.pem", "ecjunk.pem">>
    /\ Get(resolve).result.err = "KeyUnrecognized"

\* what the last call on d, run alone from call to return, comes to
C10_Alone(d) ==
    sign_metadata(root, Get(keys),
                  [signed[d] EXCEPT !.signatures = Get(last[d]).old],
                  Get(last[d]).rng)

\* C10: two sign_metadata calls on two documents with the same Root and
\* key map, their loop turns interleaved in any way: each document ends as
\* its call alone leaves it (same returned value, same KeyIds just as many
\* times), every signature on a document is over that document's payload,
\* and Root never changes.
C10_InterleavingSafe ==
    /\ [](\A d \in Docs :
            /\ (IsSome(last[d]) /\ frame[d] = None) =>
                  /\ Get(last[d]).ret = C10_Alone(d).ret
                  /\ Len(signed[d].signatures) = Len(C10_Alone(d).role.signatures)
                  /\ \A k \in KeyIds :
                        Count(signed[d].signatures, k)
                          = Count(C10_Alone(d).role.signatures, k)
            /\ \A i \in DOMAIN signed[d].signatures :
                  signed[d].signatures[i].sig.msg = <<"cjson", d>>)
    /\ [][root' = root /\ (IsSome(keys) => keys' = keys)]_vars

\* both calls are in their loops, each with a signature pushed and an entry
\* of the map still to come
C10_Witness ==
    \A d \in Docs :
        /\ IsSome(frame[d])
        /\ Get(frame[d]).iter # <<>>
        /\ signed[d].signatures # <<>>

\* the usable KeyIds of d in the order in which the loop meets them
UsableInOrder(d) == SelectSeq(Get(keys).iter, LAMBDA k : k \in Usable(d))
\* the number of keys the last call on d signed with before it failed
SignedBeforeFailure(d) ==
    IF signed[d].signed.representable THEN Get(last[d]).rng ELSE 0

\* C11: a call in which serialization or signing fails for a key returns
\* that error (SignJson for serialization, Sign for signing) without an
\* entry for the failing key: the entries it appended are those of the
\* usable keys met before the failing one, in order, and they stay behind
\* the earlier signatures; from the failure on the call takes no loop turn
\* and changes the document no more, its next step being the return of
\* that error.
C11_FailureKeepsEarlierEntries ==
    /\ [](\A d \in Docs :
            (IsSome(last[d]) /\ frame[d] = None /\ Get(last[d]).ret # "Ok") =>
                /\ RoleDeclared(d)
                /\ Get(last[d]).ret =
                      IF signed[d].signed.representable THEN "Sign" ELSE "SignJson"
                /\ SignedBeforeFailure(d) < Len(UsableInOrder(d))
                /\ [i \in 1..Len(Appended(d)) |-> Appended(d)[i].keyid]
                      = SubSeq(UsableInOrder(d), 1, SignedBeforeFailure(d))
                /\ IsPrefix(Get(last[d]).old, signed[d].signatures))
    /\ [][\A d \in Docs :
            (IsSome(frame[d]) /\ Get(frame[d]).ret # "running") =>
                /\ signed'[d] = signed[d]
                /\ \/ frame'[d] = frame[d]
                   \/ /\ frame'[d] = None
                      /\ Get(last'[d]).ret = Get(frame[d]).ret]_vars

\* one call failed with Sign at its second key and left the entry of its
\* first key, and one call failed with SignJson
C11_Witness ==
    /\ \E d \in Docs :
          /\ IsSome(last[d])
          /\ frame[d] = None
          /\ Get(last[d]).ret = "Sign"
          /\ Len(UsableInOrder(d)) = 2
          /\ Len(Appended(d)) = 1
    /\ \E d \in Docs :
          /\ IsSome(last[d])
          /\ frame[d] = None
          /\ Get(last[d]).ret = "SignJson"

\* Root with the role of d declared, no KeyId listed for it
DeclaringEmpty(d) ==
    [root EXCEPT !.roles = [t \in {signed[d].signed.type} |->
                               [keyids |-> <<>>, threshold |-> 1]]]
\* d as it would be handed over with a signature already on it
AlreadySigned(d) ==
    [signed[d] EXCEPT !.signatures =
        <<[keyid |-> "k1",
           sig |-> [by |-> [public |-> "A", private |-> "priv1"],
                    msg |-> <<"cjson", d>>]]>>]

\* C12: when root.roles has no entry for the document's role,
\* sign_metadata returns Ok and leaves the signatures as they were, without
\* serializing (also a payload serde cannot represent) or signing (also an
\* rng that cannot be filled, which it leaves as it was), whatever the key
\* map holds and whatever signatures the document carries; the value
\* returned is the one returned for the role declared with no usable key.
C12_UndeclaredRoleIsOk ==
    \A d \in Docs :
        (IsSome(keys) /\ ~RoleDeclared(d)) =>
            /\ (IsSome(last[d]) /\ frame[d] = None) =>
                  /\ Get(last[d]).ret = "Ok"
                  /\ signed[d].signatures = Get(last[d]).old
                  /\ Get(last[d]).ret =
                        sign_metadata(DeclaringEmpty(d), Get(keys),
                            [signed[d] EXCEPT !.signatures = Get(last[d]).old],
                            Get(last[d]).rng).ret
            /\ \A rng \in RngStates :
                  sign_metadata(root, Get(keys), AlreadySigned(d), rng)
                     = SignState(AlreadySigned(d), rng, "Ok")

\* a call returned for an undeclared role with a key in the map, a payload
\* that cannot be serialized and an rng that cannot be filled
C12_Witness ==
    \E d \in Docs :
        /\ IsSome(keys)
        /\ ~RoleDeclared(d)
        /\ IsSome(last[d])
        /\ DOMAIN Get(keys).map # {}
        /\ ~signed[d].signed.representable
        /\ Get(last[d]).rng = 0

====
